---- MODULE Spec2Model ----
(***************************************************************************)
(* A model of langchain_localai.LocalAIRerank (localai_rerank.py): the     *)
(* adapter's configuration, its two lazily constructed HTTP clients, the   *)
(* rerank request/response exchange and the construction of the annotated  *)
(* output documents.                                                        *)
(*                                                                         *)
(* Python objects that can be aliased (metadata dicts and the containers   *)
(* nested in them) live in `heap`, a sequence of dicts addressed by their  *)
(* position; a dict is a function from keys to tagged values, a value      *)
(* being an integer ([t |-> "int"]) or a reference to another heap object  *)
(* ([t |-> "ref"]).  Relevance scores are integers (tenths).               *)
(***************************************************************************)
EXTENDS Integers, Sequences, FiniteSets, TLC

VARIABLES
    self,          \* the adapter's fields, or a record with exists = FALSE
    sync_client,   \* self._sync_client: 0 (None) or the position of a client
    async_client,  \* self._async_client: 0 (None) or the position of a client
    clients,       \* every httpx client constructed so far, in order
    heap,          \* the dict objects of the call in progress / last call
    call,          \* what the last operation was given and what it did
    tasks          \* concurrent callers: where each one is in its operation

vars == <<self, sync_client, async_client, clients, heap, call, tasks>>

\* No concurrent callers: one operation at a time.
NoTasks == <<>>

(***************************************************************************)
(* Bounds of the model.                                                    *)
(***************************************************************************)
MaxDocs == 2        \* longest document sequence a caller passes
MaxResults == 2     \* longest results list the server answers with
MaxClients == 2     \* clients constructed over an adapter's life

(***************************************************************************)
(* Python values.                                                          *)
(***************************************************************************)
NoneInt == [some |-> FALSE, v |-> 0]
SomeInt(n) == [some |-> TRUE, v |-> n]
NoneStr == [some |-> FALSE, v |-> ""]
SomeStr(s) == [some |-> TRUE, v |-> s]

\* Python truthiness of an Optional[str]: None and "" are falsy.
TruthyStr(o) == o.some /\ o.v # ""

IntVal(n) == [t |-> "int", v |-> n]
RefVal(a) == [t |-> "ref", v |-> a]
EmptyDict == [k \in {} |-> IntVal(0)]

\* d[key] = value on a dict: the key is added, or its value replaced.
DictSet(d, key, value) == [k \in DOMAIN d \cup {key} |-> IF k = key THEN value ELSE d[k]]

(***************************************************************************)
(* Field defaults of the adapter.                                          *)
(***************************************************************************)
DefaultModel == "jina-reranker-v1-base-en"
DefaultTopN == 3
TopNMin == 1

NoAdapter == [exists |-> FALSE, model |-> "", top_n |-> NoneInt, openai_api_key |-> NoneStr]

(***************************************************************************)
(* What a caller passes as one item of `documents`: a plain str or a       *)
(* Document.  StrItem and Document are the two Python types; a Document's  *)
(* metadata is the address of its dict in the heap.                        *)
(***************************************************************************)
StrItem(s) == [kind |-> "str", s |-> s]
Document(content, addr) == [kind |-> "Document", page_content |-> content, metadata |-> addr]

\* The caller's literals: Document("foo bar", {"id": 0, "tags": [1]}),
\* Document("moo foo", {"relevance_score": 1}) and the str "foo bar".
Literals == {"docA", "docB", "str"}

\* The heap and the item after the caller has built the literal `lit`.
Alloc(h, lit) ==
    CASE lit = "docA" ->
           LET nested == ("0" :> IntVal(1))
               top == ("id" :> IntVal(0)) @@ ("tags" :> RefVal(Len(h) + 1))
           IN [heap |-> h \o <<nested, top>>, item |-> Document("foo bar", Len(h) + 2)]
      [] lit = "docB" ->
           [heap |-> Append(h, ("relevance_score" :> IntVal(1))),
            item |-> Document("moo foo", Len(h) + 1)]
      [] OTHER -> [heap |-> h, item |-> StrItem("foo bar")]

RECURSIVE Materialise(_, _)
Materialise(h, lits) ==
    IF lits = <<>> THEN [heap |-> h, documents |-> <<>>]
    ELSE LET a == Alloc(h, Head(lits))
             rest == Materialise(a.heap, Tail(lits))
         IN [heap |-> rest.heap, documents |-> <<a.item>> \o rest.documents]

(***************************************************************************)
(* copy.deepcopy of the heap object at `addr`: a fresh object whose        *)
(* referenced objects are fresh copies too.  Returns the grown heap and    *)
(* the address of the copy.                                                *)
(***************************************************************************)
RECURSIVE deepcopy(_, _)
RECURSIVE DeepCopyKeys(_, _, _, _)
DeepCopyKeys(h, src, keys, acc) ==
    IF keys = {} THEN [heap |-> h, dict |-> acc]
    ELSE LET k == CHOOSE x \in keys : TRUE
             val == src[k]
         IN IF val.t = "ref"
            THEN LET c == deepcopy(h, val.v)
                 IN DeepCopyKeys(c.heap, src, keys \ {k}, DictSet(acc, k, RefVal(c.addr)))
            ELSE DeepCopyKeys(h, src, keys \ {k}, DictSet(acc, k, val))

deepcopy(h, addr) ==
    LET c == DeepCopyKeys(h, h[addr], DOMAIN h[addr], EmptyDict)
    IN [heap |-> Append(c.heap, c.dict), addr |-> Len(c.heap) + 1]

(***************************************************************************)
(* The HTTP clients.  A client is what httpx.Client(headers=...) returns:  *)
(* its kind, its default headers (name/value pairs) and how many times     *)
(* close() has been called on it.                                          *)
(***************************************************************************)
NewClient(kind, headers) == [kind |-> kind, headers |-> headers, closes |-> 0]

\* The Authorization header attached whatever the key is.
ClientHeadersAlwaysAuth(s) ==
    {<<"Content-Type", "application/json">>,
     <<"Authorization", "Bearer " \o s.openai_api_key.v>>}

\* The headers both client getters build from the configured API key.
ClientHeaders(s) ==
    {<<"Content-Type", "application/json">>}
    \cup (IF TruthyStr(s.openai_api_key)
          THEN {<<"Authorization", "Bearer " \o s.openai_api_key.v>>}
          ELSE {})

\* _get_sync_client: the held client, or a new one stored in the handle.
get_sync_client(s, handle, cl) ==
    IF handle = 0
    THEN [handle |-> Len(cl) + 1,
          clients |-> Append(cl, NewClient("sync", ClientHeaders(s)))]
    ELSE [handle |-> handle, clients |-> cl]

\* _get_async_client: the same for the async handle.
get_async_client(s, handle, cl) ==
    IF handle = 0
    THEN [handle |-> Len(cl) + 1,
          clients |-> Append(cl, NewClient("async", ClientHeaders(s)))]
    ELSE [handle |-> handle, clients |-> cl]

(***************************************************************************)
(* The rerank exchange.                                                    *)
(***************************************************************************)
RerankPath == "/v1/rerank"
GenericError == "Unknown error from rerank API"

\* Step 1: a Document yields its page_content, anything else passes through.
NormalizeDocs(documents) ==
    [i \in 1..Len(documents) |->
        IF documents[i].kind = "Document" THEN documents[i].page_content
        ELSE documents[i].s]

\* model or self.model
ResolveModel(s, model) == IF TruthyStr(model) THEN model.v ELSE s.model

\* The override taken whenever it is not None.
ResolveTopNAnyOverride(s, top_n) == IF top_n.some THEN top_n ELSE s.top_n

\* top_n if top_n is not None and top_n > 0 else self.top_n
ResolveTopN(s, top_n) == IF top_n.some /\ top_n.v > 0 THEN top_n ELSE s.top_n

RequestBody(s, documents, query, model, top_n) ==
    [query |-> query,
     documents |-> NormalizeDocs(documents),
     model |-> ResolveModel(s, model),
     top_n |-> ResolveTopN(s, top_n)]

\* [{"index": r["index"], "relevance_score": r["relevance_score"]} for r in ...]:
\* a KeyError at the first entry lacking one of the two keys.
RECURSIVE ExtractResults(_, _)
ExtractResults(entries, acc) ==
    IF entries = <<>> THEN [raised |-> FALSE, error |-> "", results |-> acc]
    ELSE LET r == Head(entries)
         IN IF ~r.has_index \/ ~r.has_score
            THEN [raised |-> TRUE, error |-> "KeyError", results |-> <<>>]
            ELSE ExtractResults(Tail(entries),
                     Append(acc, [index |-> r.index, relevance_score |-> r.relevance_score]))

\* AfterPost taking a body without "results" for an empty results list.
AfterPostLenient(got, data, resp) ==
    LET post == [client |-> got.handle, url |-> RerankPath, json |-> data]
        base == [raised |-> TRUE, error |-> "", message |-> NoneStr, results |-> <<>>,
                 posts |-> <<post>>, handle |-> got.handle, clients |-> got.clients]
    IN IF resp.transport # "ok"
       THEN [base EXCEPT !.error = "TransportError"]
       ELSE IF resp.status >= 400
       THEN [base EXCEPT !.error = "HTTPStatusError"]
       ELSE LET x == ExtractResults(resp.json.results, <<>>)
            IN [base EXCEPT !.raised = x.raised, !.error = x.error, !.results = x.results]

\* What follows client.post(url, json=data), given the client and the
\* server's behaviour `resp`: raise_for_status, json, the results check.
AfterPost(got, data, resp) ==
    LET post == [client |-> got.handle, url |-> RerankPath, json |-> data]
        base == [raised |-> TRUE, error |-> "", message |-> NoneStr, results |-> <<>>,
                 posts |-> <<post>>, handle |-> got.handle, clients |-> got.clients]
    IN IF resp.transport # "ok"
       THEN [base EXCEPT !.error = "TransportError"]
       ELSE IF resp.status >= 400
       THEN [base EXCEPT !.error = "HTTPStatusError"]
       ELSE IF ~resp.json.has_results
       THEN [base EXCEPT !.error = "RuntimeError",
                         !.message = IF resp.json.has_detail
                                     THEN SomeStr(resp.json.detail)
                                     ELSE SomeStr(GenericError)]
       ELSE LET x == ExtractResults(resp.json.results, <<>>)
            IN [base EXCEPT !.raised = x.raised, !.error = x.error, !.results = x.results]

NoCall(handle, cl) ==
    [raised |-> FALSE, error |-> "", message |-> NoneStr, results |-> <<>>,
     posts |-> <<>>, handle |-> handle, clients |-> cl]

\* _rerank_sync without its empty-input return.
rerank_sync_always_posts(s, handle, cl, documents, query, model, top_n, resp) ==
    AfterPost(get_sync_client(s, handle, cl),
              RequestBody(s, documents, query, model, top_n), resp)

\* _rerank_sync
rerank_sync(s, handle, cl, documents, query, model, top_n, resp) ==
    IF documents = <<>> THEN NoCall(handle, cl)
    ELSE AfterPost(get_sync_client(s, handle, cl),
                   RequestBody(s, documents, query, model, top_n), resp)

\* _rerank_async
rerank_async(s, handle, cl, documents, query, model, top_n, resp) ==
    IF documents = <<>> THEN NoCall(handle, cl)
    ELSE AfterPost(get_async_client(s, handle, cl),
                   RequestBody(s, documents, query, model, top_n), resp)

(***************************************************************************)
(* _build_compressed_docs.                                                 *)
(***************************************************************************)
\* Python's sequence[i] as a position 1..n: a negative i counts from the end;
\* 0 when i selects nothing (IndexError).
PyIndex(n, i) ==
    IF i >= 0 THEN (IF i < n THEN i + 1 ELSE 0)
    ELSE (IF n + i >= 0 THEN n + i + 1 ELSE 0)

\* documents[res["index"]] with the index taken as counting from 1.
SelectDocOneBased(documents, index) == PyIndex(Len(documents), index - 1)

\* documents[res["index"]]: the position selected, 0 for an IndexError.
SelectDoc(documents, index) == PyIndex(Len(documents), index)

\* copy.copy in place of deepcopy: a new dict sharing the nested objects.
CopyMetadataShallow(h, addr) == [heap |-> Append(h, h[addr]), addr |-> Len(h) + 1]

\* metadata=deepcopy(original_doc.metadata)
CopyMetadata(h, addr) == deepcopy(h, addr)

\* The loop returning what it has built so far when an index is out of range.
RECURSIVE BuildLoopPartial(_, _, _, _)
BuildLoopPartial(h, documents, results, compressed) ==
    IF results = <<>> THEN [raised |-> FALSE, error |-> "", output |-> compressed, heap |-> h]
    ELSE LET res == Head(results)
             pos == PyIndex(Len(documents), res.index)
         IN IF pos = 0
            THEN [raised |-> FALSE, error |-> "", output |-> compressed, heap |-> h]
            ELSE IF documents[pos].kind # "Document"
            THEN [raised |-> TRUE, error |-> "AttributeError", output |-> <<>>, heap |-> h]
            ELSE LET c == deepcopy(h, documents[pos].metadata)
                     h2 == [c.heap EXCEPT ![c.addr] =
                               DictSet(@, "relevance_score", IntVal(res.relevance_score))]
                     new_doc == Document(documents[pos].page_content, c.addr)
                 IN BuildLoopPartial(h2, documents, Tail(results), Append(compressed, new_doc))

\* One turn of the loop: the new document for `res`, appended.
RECURSIVE BuildLoop(_, _, _, _)
BuildLoop(h, documents, results, compressed) ==
    IF results = <<>> THEN [raised |-> FALSE, error |-> "", output |-> compressed, heap |-> h]
    ELSE LET res == Head(results)
             pos == SelectDoc(documents, res.index)
         IN IF pos = 0
            THEN [raised |-> TRUE, error |-> "IndexError", output |-> <<>>, heap |-> h]
            ELSE IF documents[pos].kind # "Document"
            THEN [raised |-> TRUE, error |-> "AttributeError", output |-> <<>>, heap |-> h]
            ELSE LET c == CopyMetadata(h, documents[pos].metadata)
                     h2 == [c.heap EXCEPT ![c.addr] =
                               DictSet(@, "relevance_score", IntVal(res.relevance_score))]
                     new_doc == Document(documents[pos].page_content, c.addr)
                 IN BuildLoop(h2, documents, Tail(results), Append(compressed, new_doc))

\* _build_compressed_docs re-sorting the results by descending score first.
RECURSIVE InsertDesc(_, _)
InsertDesc(sorted, r) ==
    IF sorted = <<>> THEN <<r>>
    ELSE IF r.relevance_score > Head(sorted).relevance_score THEN <<r>> \o sorted
    ELSE <<Head(sorted)>> \o InsertDesc(Tail(sorted), r)
RECURSIVE SortDesc(_)
SortDesc(rs) == IF rs = <<>> THEN <<>> ELSE InsertDesc(SortDesc(Tail(rs)), Head(rs))
build_sorted(h, documents, results) == BuildLoop(h, documents, SortDesc(results), <<>>)

build_compressed_docs(h, documents, results) == BuildLoop(h, documents, results, <<>>)

(***************************************************************************)
(* Construction: validate_environment (a "before" validator) resolves the  *)
(* API key from the argument or the environment, then the fields are       *)
(* validated (top_n: Optional[int], ge=1).                                 *)
(***************************************************************************)
\* langchain_core's get_from_dict_or_env(data, key, env_key, default): the
\* argument when truthy, else the environment variable when truthy, else the
\* default when one is given, else a ValueError.
get_from_dict_or_env(given, env, default) ==
    IF TruthyStr(given) THEN [raised |-> FALSE, value |-> SomeStr(given.v)]
    ELSE IF TruthyStr(env) THEN [raised |-> FALSE, value |-> SomeStr(env.v)]
    ELSE IF default.some THEN [raised |-> FALSE, value |-> default]
    ELSE [raised |-> TRUE, value |-> NoneStr]

validate_environment(key_arg, env_key) == get_from_dict_or_env(key_arg, env_key, NoneStr)

\* The constraint as ge=0.
TopNValidFromZero(top_n) == ~top_n.some \/ top_n.v >= 0

\* Field(default=3, ge=1) on an Optional[int]: None passes, an int must be >= 1.
TopNValid(top_n) == ~top_n.some \/ top_n.v >= TopNMin

\* top_n: Optional[int] = Field(default=3, ge=1): the argument, or the default.
TopNField(given, top_n) == IF given THEN top_n ELSE SomeInt(DefaultTopN)

Idle == [op |-> "idle"]

\* LocalAIRerank(top_n=..., openai_api_key=...) with OPENAI_API_KEY = env_key.
Construct(top_n_given, top_n_arg, key_arg, env_key) ==
    /\ ~self.exists
    /\ call = Idle
    /\ LET key == validate_environment(key_arg, env_key)
           top_n == TopNField(top_n_given, top_n_arg)
           failed == key.raised \/ ~TopNValid(top_n)
       IN /\ self' = IF failed THEN NoAdapter
                     ELSE [exists |-> TRUE, model |-> DefaultModel, top_n |-> top_n,
                           openai_api_key |-> key.value]
          /\ call' = [op |-> "construct", raised |-> failed,
                      error |-> IF failed THEN "ValidationError" ELSE "",
                      top_n_given |-> top_n_given, top_n_arg |-> top_n_arg,
                      key_arg |-> key_arg, env_key |-> env_key]
    /\ UNCHANGED <<sync_client, async_client, clients, heap, tasks>>

\* reranker.openai_api_key = value: the model class is not frozen, so the
\* field can be assigned after construction (no validation on assignment).
AssignApiKey(value) ==
    /\ self.exists
    /\ call = Idle
    /\ self.openai_api_key # value
    /\ self' = [self EXCEPT !.openai_api_key = value]
    /\ UNCHANGED <<sync_client, async_client, clients, heap, call, tasks>>

(***************************************************************************)
(* The calls.  `lits` are the caller's document literals, built in a fresh *)
(* heap; `resp` is how the server (or the transport) answers the POST.     *)
(***************************************************************************)
CallRecord(op, lits, m, query, model, top_n, resp, r, b, before, cl) ==
    [op |-> op, lits |-> lits, documents |-> m.documents, heap0 |-> m.heap,
     query |-> query, model |-> model, top_n |-> top_n, resp |-> resp,
     raised |-> r.raised \/ b.raised,
     error |-> IF r.raised THEN r.error ELSE b.error,
     message |-> r.message,
     results |-> r.results,
     output |-> b.output,
     posts |-> r.posts,
     created |-> Len(r.clients) - Len(cl),
     handle_before |-> before,
     mutated |-> FALSE]

NotBuilt(h) == [raised |-> FALSE, error |-> "", output |-> <<>>, heap |-> h]

\* The body of compress_documents: results = self._rerank_sync(documents, query),
\* then self._build_compressed_docs(documents, results) unless that raised.
CompressSync(s, handle, cl, lits, query, resp) ==
    LET m == Materialise(<<>>, lits)
        r == rerank_sync(s, handle, cl, m.documents, query, NoneStr, NoneInt, resp)
        b == IF r.raised THEN NotBuilt(m.heap)
             ELSE build_compressed_docs(m.heap, m.documents, r.results)
    IN [handle |-> r.handle, clients |-> r.clients, heap |-> b.heap,
        call |-> CallRecord("compress_documents", lits, m, query, NoneStr, NoneInt,
                            resp, r, b, handle, cl)]

\* The body of acompress_documents.
CompressAsync(s, handle, cl, lits, query, resp) ==
    LET m == Materialise(<<>>, lits)
        r == rerank_async(s, handle, cl, m.documents, query, NoneStr, NoneInt, resp)
        b == IF r.raised THEN NotBuilt(m.heap)
             ELSE build_compressed_docs(m.heap, m.documents, r.results)
    IN [handle |-> r.handle, clients |-> r.clients, heap |-> b.heap,
        call |-> CallRecord("acompress_documents", lits, m, query, NoneStr, NoneInt,
                            resp, r, b, handle, cl)]

\* _rerank_sync / _rerank_async called directly on the caller's documents.
DirectSync(s, handle, cl, lits, query, model, top_n, resp) ==
    LET m == Materialise(<<>>, lits)
        r == rerank_sync(s, handle, cl, m.documents, query, model, top_n, resp)
    IN [handle |-> r.handle, clients |-> r.clients, heap |-> m.heap,
        call |-> CallRecord("rerank_sync", lits, m, query, model, top_n,
                            resp, r, NotBuilt(m.heap), handle, cl)]

DirectAsync(s, handle, cl, lits, query, model, top_n, resp) ==
    LET m == Materialise(<<>>, lits)
        r == rerank_async(s, handle, cl, m.documents, query, model, top_n, resp)
    IN [handle |-> r.handle, clients |-> r.clients, heap |-> m.heap,
        call |-> CallRecord("rerank_async", lits, m, query, model, top_n,
                            resp, r, NotBuilt(m.heap), handle, cl)]

\* compress_documents(documents, query)
compress_documents(lits, query, resp) ==
    /\ self.exists
    /\ call = Idle
    /\ \E o \in {CompressSync(self, sync_client, clients, lits, query, resp)} :
          /\ Len(o.clients) <= MaxClients
          /\ sync_client' = o.handle
          /\ clients' = o.clients
          /\ heap' = o.heap
          /\ call' = o.call
    /\ UNCHANGED <<self, async_client, tasks>>

\* acompress_documents(documents, query)
acompress_documents(lits, query, resp) ==
    /\ self.exists
    /\ call = Idle
    /\ \E o \in {CompressAsync(self, async_client, clients, lits, query, resp)} :
          /\ Len(o.clients) <= MaxClients
          /\ async_client' = o.handle
          /\ clients' = o.clients
          /\ heap' = o.heap
          /\ call' = o.call
    /\ UNCHANGED <<self, sync_client, tasks>>

\* reranker._rerank_sync(documents, query, model, top_n), called directly.
RerankSync(lits, query, model, top_n, resp) ==
    /\ self.exists
    /\ call = Idle
    /\ \E o \in {DirectSync(self, sync_client, clients, lits, query, model, top_n, resp)} :
          /\ Len(o.clients) <= MaxClients
          /\ sync_client' = o.handle
          /\ clients' = o.clients
          /\ heap' = o.heap
          /\ call' = o.call
    /\ UNCHANGED <<self, async_client, tasks>>

\* await reranker._rerank_async(documents, query, model, top_n), called directly.
RerankAsync(lits, query, model, top_n, resp) ==
    /\ self.exists
    /\ call = Idle
    /\ \E o \in {DirectAsync(self, async_client, clients, lits, query, model, top_n, resp)} :
          /\ Len(o.clients) <= MaxClients
          /\ async_client' = o.handle
          /\ clients' = o.clients
          /\ heap' = o.heap
          /\ call' = o.call
    /\ UNCHANGED <<self, sync_client, tasks>>

(***************************************************************************)
(* close / aclose.                                                         *)
(***************************************************************************)
\* client.close() on the client at `handle`.
CloseClient(cl, handle) == [cl EXCEPT ![handle].closes = @ + 1]

CloseRecord(op, before) ==
    [op |-> op, raised |-> FALSE, error |-> "", handle_before |-> before,
     sync_before |-> sync_client, async_before |-> async_client,
     clients_before |-> clients]

\* close() that leaves the closed client in the handle.
close_keeps_handle ==
    /\ self.exists
    /\ call = Idle
    /\ IF sync_client # 0
       THEN /\ clients' = CloseClient(clients, sync_client)
            /\ UNCHANGED sync_client
       ELSE UNCHANGED <<clients, sync_client>>
    /\ call' = CloseRecord("close", sync_client)
    /\ UNCHANGED <<self, async_client, heap, tasks>>

\* close()
close ==
    /\ self.exists
    /\ call = Idle
    /\ IF sync_client # 0
       THEN /\ clients' = CloseClient(clients, sync_client)
            /\ sync_client' = 0
       ELSE UNCHANGED <<clients, sync_client>>
    /\ call' = CloseRecord("close", sync_client)
    /\ UNCHANGED <<self, async_client, heap, tasks>>

\* aclose()
aclose ==
    /\ self.exists
    /\ call = Idle
    /\ IF async_client # 0
       THEN /\ clients' = CloseClient(clients, async_client)
            /\ async_client' = 0
       ELSE UNCHANGED <<clients, async_client>>
    /\ call' = CloseRecord("aclose", async_client)
    /\ UNCHANGED <<self, sync_client, heap, tasks>>

(***************************************************************************)
(* The caller, after a call: it may change a returned document's metadata  *)
(* (a top-level key, or the list nested under "tags"), and it drops the    *)
(* result before the next operation.                                       *)
(***************************************************************************)
IsRerankOp(op) == op \in {"compress_documents", "acompress_documents",
                          "rerank_sync", "rerank_async"}
IsCompressOp(op) == op \in {"compress_documents", "acompress_documents"}

\* out.metadata["id"] = 7
MutateOutputTop(j) ==
    /\ IsCompressOp(call.op) /\ ~call.raised /\ ~call.mutated
    /\ j \in 1..Len(call.output)
    /\ heap' = [heap EXCEPT ![call.output[j].metadata] = DictSet(@, "id", IntVal(7))]
    /\ call' = [call EXCEPT !.mutated = TRUE]
    /\ UNCHANGED <<self, sync_client, async_client, clients, tasks>>

\* out.metadata["tags"][0] = 7
MutateOutputNested(j) ==
    /\ IsCompressOp(call.op) /\ ~call.raised /\ ~call.mutated
    /\ j \in 1..Len(call.output)
    /\ "tags" \in DOMAIN heap[call.output[j].metadata]
    /\ heap' = [heap EXCEPT ![heap[call.output[j].metadata]["tags"].v] =
                                DictSet(@, "0", IntVal(7))]
    /\ call' = [call EXCEPT !.mutated = TRUE]
    /\ UNCHANGED <<self, sync_client, async_client, clients, tasks>>

Discard ==
    /\ call # Idle
    /\ call' = Idle
    /\ heap' = <<>>
    /\ UNCHANGED <<self, sync_client, async_client, clients, tasks>>

(***************************************************************************)
(* The inputs the callers and the server draw from.                        *)
(***************************************************************************)
Indexes == {-1, 0, 1, 2}
Scores == {5, 9}
Entry(i, sc) == [has_index |-> TRUE, index |-> i, has_score |-> TRUE, relevance_score |-> sc]
Entries == {Entry(i, sc) : i \in Indexes, sc \in Scores}
\* A result entry without "index", and one without "relevance_score".
NoIndexEntry == [has_index |-> FALSE, index |-> 0, has_score |-> TRUE, relevance_score |-> 9]
NoScoreEntry == [has_index |-> TRUE, index |-> 0, has_score |-> FALSE, relevance_score |-> 0]
AnyEntries == Entries \cup {NoIndexEntry, NoScoreEntry}

SeqsUpTo(S, n) == UNION {[1..k -> S] : k \in 0..n}

DocLists == SeqsUpTo(Literals, MaxDocs)
ResultLists == SeqsUpTo(AnyEntries, MaxResults)

ResultsBody(results) ==
    [has_results |-> TRUE, results |-> results, has_detail |-> FALSE, detail |-> ""]
DetailBody == [has_results |-> FALSE, results |-> <<>>, has_detail |-> TRUE,
               detail |-> "model not found"]
BareBody == [has_results |-> FALSE, results |-> <<>>, has_detail |-> FALSE, detail |-> ""]

Answer(status, body) == [transport |-> "ok", status |-> status, json |-> body]
TransportFailure == [transport |-> "fail", status |-> 0, json |-> BareBody]

\* Every answer: a transport failure, a 500 (whatever its body), a 200
\* without results, a 200 with any results list, entries that lack a key
\* included.
Responses ==
    {TransportFailure, Answer(500, DetailBody), Answer(500, ResultsBody(<<Entry(0, 9)>>)),
     Answer(200, DetailBody), Answer(200, BareBody)}
    \cup {Answer(200, ResultsBody(rs)) : rs \in ResultLists}

\* The few answers and document lists the lifecycle specification uses.
FewResponses ==
    {TransportFailure, Answer(500, DetailBody), Answer(200, DetailBody),
     Answer(200, ResultsBody(<<Entry(0, 9)>>))}
FewDocLists == {<<>>, <<"docA">>, <<"str", "docB">>}

Queries == {"foo", "bar"}
ModelArgs == {NoneStr, SomeStr(""), SomeStr("bge-reranker-v2-m3")}
TopNArgs == {NoneInt, SomeInt(-1), SomeInt(0), SomeInt(1), SomeInt(2)}
KeyArgs == {NoneStr, SomeStr(""), SomeStr("secret")}
EnvKeys == {NoneStr, SomeStr("envkey")}

(***************************************************************************)
(* Spec: an adapter's life from construction on, with few inputs per call. *)
(***************************************************************************)
Init ==
    /\ self = NoAdapter
    /\ sync_client = 0
    /\ async_client = 0
    /\ clients = <<>>
    /\ heap = <<>>
    /\ call = Idle
    /\ tasks = NoTasks

\* The caller is between two operations.  (Each operation states this guard
\* itself; Next states it first so that it is decided before inputs are drawn.)
Ready == call = Idle

Next ==
    \/ Ready /\ \E g \in BOOLEAN, t \in TopNArgs, k \in KeyArgs, e \in EnvKeys :
                   Construct(g, t, k, e)
    \/ AssignApiKey(NoneStr)
    \/ Ready /\ \E d \in FewDocLists, r \in FewResponses : compress_documents(d, "foo", r)
    \/ Ready /\ \E d \in FewDocLists, r \in FewResponses : acompress_documents(d, "foo", r)
    \/ Ready /\ \E d \in FewDocLists, q \in Queries, m \in ModelArgs, t \in TopNArgs :
                   RerankSync(d, q, m, t, Answer(200, ResultsBody(<<Entry(0, 9)>>)))
    \/ Ready /\ \E d \in FewDocLists, q \in Queries, m \in ModelArgs, t \in TopNArgs :
                   RerankAsync(d, q, m, t, Answer(200, ResultsBody(<<Entry(0, 9)>>)))
    \/ close
    \/ aclose
    \/ Discard

Spec == Init /\ [][Next]_vars

(***************************************************************************)
(* SpecIO: the adapter LocalAIRerank(top_n=1, openai_api_key="secret"),    *)
(* every document list and every answer.                                   *)
(***************************************************************************)
InitIO ==
    /\ self = [exists |-> TRUE, model |-> DefaultModel, top_n |-> SomeInt(TopNMin),
               openai_api_key |-> SomeStr("secret")]
    /\ sync_client = 0
    /\ async_client = 0
    /\ clients = <<>>
    /\ heap = <<>>
    /\ call = Idle
    /\ tasks = NoTasks

NextIO ==
    \/ Ready /\ \E d \in DocLists, r \in Responses : compress_documents(d, "foo", r)
    \/ Ready /\ \E d \in DocLists, r \in Responses : acompress_documents(d, "foo", r)
    \/ ~Ready /\ \E j \in 1..MaxResults : MutateOutputTop(j)
    \/ ~Ready /\ \E j \in 1..MaxResults : MutateOutputNested(j)
    \/ Discard

SpecIO == InitIO /\ [][NextIO]_vars

(***************************************************************************)
(* Helpers of the properties.                                              *)
(***************************************************************************)
\* The text of a caller's literal.
LitText(lit) == IF lit = "docB" THEN "moo foo" ELSE "foo bar"

\* The object at a1 in h1 and the object at a2 in h2 are equal as Python
\* values (==): the same keys, equal integers, equal nested objects.
RECURSIVE DeepEq(_, _, _, _)
ValueEq(h1, v1, h2, v2) ==
    /\ v1.t = v2.t
    /\ IF v1.t = "ref" THEN DeepEq(h1, v1.v, h2, v2.v) ELSE v1.v = v2.v
DeepEq(h1, a1, h2, a2) ==
    /\ DOMAIN h1[a1] = DOMAIN h2[a2]
    /\ \A k \in DOMAIN h1[a1] : ValueEq(h1, h1[a1][k], h2, h2[a2][k])

\* A compress call that returned, seen before the caller touches the result.
Returned == IsCompressOp(call.op) /\ ~call.raised /\ ~call.mutated

\* The position of the input document the j-th result selects, and that
\* document.
SelectedPos(j) == PyIndex(Len(call.documents), call.results[j].index)
Selected(j) == call.documents[SelectedPos(j)]

HasHeader(c, name) == \E p \in c.headers : p[1] = name

(***************************************************************************)
(* C1. Every compress_documents / acompress_documents call on an empty     *)
(* document sequence returns an empty list, issues no POST and constructs  *)
(* no client; every call on a non-empty sequence issues exactly one POST,  *)
(* to the rerank endpoint, whatever the answer is.                         *)
(***************************************************************************)
C1_OnePostUnlessEmpty ==
    IsCompressOp(call.op) =>
        /\ call.documents = <<>> =>
              /\ ~call.raised
              /\ call.output = <<>>
              /\ call.posts = <<>>
              /\ call.created = 0
        /\ call.documents # <<>> =>
              /\ Len(call.posts) = 1
              /\ call.posts[1].url = RerankPath

\* An empty call on an adapter whose earlier client (made by a non-empty
\* call) has been closed: no POST, and no new client.
C1_Witness ==
    /\ call.op = "compress_documents"
    /\ call.documents = <<>>
    /\ call.posts = <<>>
    /\ sync_client = 0
    /\ Len(clients) = 1
    /\ clients[1].closes = 1

(***************************************************************************)
(* C2 (as stated). Each output document is built from the input document  *)
(* its result's index selects: the same content, every key/value of the    *)
(* input's metadata, and relevance_score equal to the result's score.      *)
(* Fails for an input whose metadata already holds relevance_score.        *)
(***************************************************************************)
C2_AllOriginalPairsKept ==
    Returned =>
        \A j \in 1..Len(call.output) :
            LET out == heap[call.output[j].metadata]
                orig == call.heap0[Selected(j).metadata]
            IN /\ SelectedPos(j) # 0
               /\ Selected(j).kind = "Document"
               /\ call.output[j].page_content = Selected(j).page_content
               /\ \A k \in DOMAIN orig :
                     k \in DOMAIN out /\ ValueEq(heap, out[k], call.heap0, orig[k])
               /\ "relevance_score" \in DOMAIN out
               /\ out["relevance_score"] = IntVal(call.results[j].relevance_score)

(***************************************************************************)
(* C2 (amended). Each output document is built from the input document its *)
(* result's index selects (Python indexing): the same content, every key   *)
(* of the input's metadata, every value of it except that of               *)
(* relevance_score, and relevance_score equal to the result's score.       *)
(***************************************************************************)
C2_OutputFromSelected ==
    Returned =>
        \A j \in 1..Len(call.output) :
            LET out == heap[call.output[j].metadata]
                orig == call.heap0[Selected(j).metadata]
            IN /\ SelectedPos(j) # 0
               /\ Selected(j).kind = "Document"
               /\ call.output[j].page_content = Selected(j).page_content
               /\ DOMAIN orig \subseteq DOMAIN out
               /\ \A k \in DOMAIN orig \ {"relevance_score"} :
                     ValueEq(heap, out[k], call.heap0, orig[k])
               /\ out["relevance_score"] = IntVal(call.results[j].relevance_score)

\* Of two documents, the second is the one returned: index 1 selects docB,
\* whose own relevance_score (1) is replaced by the result's.
C2_Witness ==
    /\ Returned
    /\ call.lits = <<"docA", "docB">>
    /\ Len(call.output) = 1
    /\ call.results[1].index = 1
    /\ call.output[1].page_content = "moo foo"
    /\ heap[call.output[1].metadata]["relevance_score"] = IntVal(9)

(***************************************************************************)
(* C3. A request answered with a success status and a JSON body without    *)
(* "results" makes the call raise a RuntimeError carrying the body's       *)
(* detail when it has one and the generic message otherwise; nothing is    *)
(* returned.                                                               *)
(***************************************************************************)
C3_MissingResultsRaises ==
    (/\ IsCompressOp(call.op)
     /\ call.posts # <<>>
     /\ call.resp.transport = "ok"
     /\ call.resp.status < 400
     /\ ~call.resp.json.has_results)
    => /\ call.raised
       /\ call.error = "RuntimeError"
       /\ call.message = IF call.resp.json.has_detail
                         THEN SomeStr(call.resp.json.detail)
                         ELSE SomeStr(GenericError)
       /\ call.output = <<>>

C3_Witness ==
    /\ call.op = "acompress_documents"
    /\ call.resp = Answer(200, DetailBody)
    /\ call.posts # <<>>
    /\ call.raised
    /\ call.message = SomeStr("model not found")

(***************************************************************************)
(* C4 (as stated). compress_documents accepts plain strings and Documents  *)
(* in any mix: whenever the server answers 200 with results whose indexes  *)
(* lie in [0, len(documents)), the call returns one annotated Document per *)
(* result, with the text of the selected item and the result's score.      *)
(* Fails as soon as a result selects a plain string.                       *)
(***************************************************************************)
C4_StrOrDocumentAccepted ==
    (/\ IsCompressOp(call.op)
     /\ ~call.mutated
     /\ call.documents # <<>>
     /\ call.resp.transport = "ok"
     /\ call.resp.status = 200
     /\ call.resp.json.has_results
     /\ \A i \in 1..Len(call.resp.json.results) :
           /\ call.resp.json.results[i].has_index
           /\ call.resp.json.results[i].has_score
           /\ call.resp.json.results[i].index >= 0
           /\ call.resp.json.results[i].index < Len(call.documents))
    => /\ ~call.raised
       /\ Len(call.output) = Len(call.resp.json.results)
       /\ \A j \in 1..Len(call.output) :
             /\ call.output[j].kind = "Document"
             /\ call.output[j].page_content =
                   LitText(call.lits[call.resp.json.results[j].index + 1])
             /\ heap[call.output[j].metadata]["relevance_score"] =
                   IntVal(call.resp.json.results[j].relevance_score)

(***************************************************************************)
(* C5. The returned list has one document per entry of the server's        *)
(* results, the j-th for the j-th entry: nothing is re-sorted,             *)
(* deduplicated, dropped or cut to top_n.                                  *)
(***************************************************************************)
C5_OneOutputPerResultInOrder ==
    (Returned /\ call.documents # <<>>) =>
        /\ Len(call.output) = Len(call.resp.json.results)
        /\ \A j \in 1..Len(call.output) :
              LET e == call.resp.json.results[j]
              IN /\ PyIndex(Len(call.lits), e.index) # 0
                 /\ call.output[j].page_content =
                       LitText(call.lits[PyIndex(Len(call.lits), e.index)])
                 /\ heap[call.output[j].metadata]["relevance_score"] =
                       IntVal(e.relevance_score)

\* Two entries for the same document, scores ascending, more entries than
\* top_n (1): both are returned, in the server's order.
C5_Witness ==
    /\ Returned
    /\ self.top_n = SomeInt(1)
    /\ call.lits = <<"docA", "docB">>
    /\ call.resp.json.results = <<Entry(1, 5), Entry(1, 9)>>
    /\ Len(call.output) = 2
    /\ heap[call.output[1].metadata]["relevance_score"] = IntVal(5)
    /\ heap[call.output[2].metadata]["relevance_score"] = IntVal(9)

(***************************************************************************)
(* C6. No call changes the caller's input: after a call, returned or       *)
(* raised, and after the caller has changed a returned document's          *)
(* metadata, every object the caller passed in is as it was before.        *)
(***************************************************************************)
C6_InputUntouched ==
    IsCompressOp(call.op) =>
        /\ Len(heap) >= Len(call.heap0)
        /\ \A a \in 1..Len(call.heap0) : heap[a] = call.heap0[a]
        /\ \A j \in 1..Len(call.output) : call.output[j].metadata > Len(call.heap0)

\* The caller has changed the list nested in a returned document's metadata;
\* the input document still holds its own list, unchanged.
C6_Witness ==
    /\ IsCompressOp(call.op)
    /\ call.mutated
    /\ call.lits = <<"docA">>
    /\ heap[heap[call.output[1].metadata]["tags"].v]["0"] = IntVal(7)
    /\ heap[heap[call.documents[1].metadata]["tags"].v]["0"] = IntVal(1)

(***************************************************************************)
(* C7. Constructing the adapter with top_n = 0 or a negative top_n fails   *)
(* with a ValidationError and yields no adapter; an adapter that exists    *)
(* holds the top_n it was given (None, or an integer >= 1), or the default *)
(* when none was given.                                                    *)
(***************************************************************************)
C7_NonPositiveTopNRejected ==
    /\ (call.op = "construct" /\ call.top_n_given /\ call.top_n_arg.some
            /\ call.top_n_arg.v <= 0)
       => (call.raised /\ call.error = "ValidationError" /\ ~self.exists)
    /\ (call.op = "construct" /\ ~call.raised)
       => /\ self.exists
          /\ self.top_n = IF call.top_n_given THEN call.top_n_arg ELSE SomeInt(DefaultTopN)
    /\ self.exists => (~self.top_n.some \/ self.top_n.v >= 1)

\* LocalAIRerank(top_n=0, openai_api_key="secret"): rejected, for top_n alone.
C7_Witness ==
    /\ call.op = "construct"
    /\ call.top_n_given
    /\ call.top_n_arg = SomeInt(0)
    /\ call.key_arg = SomeStr("secret")
    /\ call.raised
    /\ ~self.exists

(***************************************************************************)
(* C8. The body of every rerank POST carries as top_n the per-call         *)
(* override when that is a positive integer and the configured top_n       *)
(* otherwise (no override, 0, negative), together with the query, the      *)
(* texts of the documents in input order, and the model (the per-call      *)
(* model when one is given, else the configured one).                      *)
(***************************************************************************)
C8_RequestBody ==
    (IsRerankOp(call.op) /\ call.posts # <<>>) =>
        LET body == call.posts[1].json
        IN /\ body.top_n = IF call.top_n.some /\ call.top_n.v >= 1
                           THEN call.top_n ELSE self.top_n
           /\ body.query = call.query
           /\ Len(body.documents) = Len(call.lits)
           /\ \A i \in 1..Len(call.lits) : body.documents[i] = LitText(call.lits[i])
           /\ body.model = IF call.model.some /\ call.model.v # ""
                           THEN call.model.v ELSE self.model

\* _rerank_sync(["foo bar", Document("moo foo")], "bar", top_n=0) on an
\* adapter configured with top_n=1: the body carries top_n 1.
C8_Witness ==
    /\ call.op = "rerank_sync"
    /\ call.lits = <<"str", "docB">>
    /\ call.query = "bar"
    /\ call.top_n = SomeInt(0)
    /\ self.top_n = SomeInt(1)
    /\ call.posts[1].json.top_n = SomeInt(1)
    /\ call.posts[1].json.documents = <<"foo bar", "moo foo">>

(***************************************************************************)
(* C9. close and aclose never raise, leave their own handle empty and the  *)
(* other handle as it was, close the held client if there is one and       *)
(* nothing else; no client is ever closed twice.                           *)
(***************************************************************************)
C9_CloseIdempotent ==
    /\ \A i \in 1..Len(clients) : clients[i].closes <= 1
    /\ call.op = "close" =>
          /\ ~call.raised
          /\ sync_client = 0
          /\ async_client = call.async_before
          /\ clients = IF call.handle_before = 0 THEN call.clients_before
                       ELSE [call.clients_before EXCEPT ![call.handle_before].closes = 1]
    /\ call.op = "aclose" =>
          /\ ~call.raised
          /\ async_client = 0
          /\ sync_client = call.sync_before
          /\ clients = IF call.handle_before = 0 THEN call.clients_before
                       ELSE [call.clients_before EXCEPT ![call.handle_before].closes = 1]

\* close() on an adapter whose sync client has already been closed, while
\* an async client is open: nothing happens.
C9_Witness ==
    /\ call.op = "close"
    /\ call.handle_before = 0
    /\ Len(clients) = 2
    /\ clients[1].kind = "sync" /\ clients[1].closes = 1
    /\ clients[2].kind = "async" /\ clients[2].closes = 0
    /\ async_client = 2

(***************************************************************************)
(* C10. A client constructed by a call carries Authorization: Bearer <key> *)
(* when the adapter's API key is a non-empty string and no Authorization   *)
(* header when it is None or empty; its kind is that of the call.          *)
(***************************************************************************)
C10_AuthorizationHeader ==
    (IsRerankOp(call.op) /\ call.created > 0) =>
        LET c == clients[Len(clients)]
            key == self.openai_api_key
        IN /\ call.created = 1
           /\ c.kind = IF call.op \in {"compress_documents", "rerank_sync"}
                       THEN "sync" ELSE "async"
           /\ <<"Content-Type", "application/json">> \in c.headers
           /\ (key.some /\ key.v # "") =>
                 /\ <<"Authorization", "Bearer " \o key.v>> \in c.headers
                 /\ \A p \in c.headers : p[1] = "Authorization" => p[2] = "Bearer " \o key.v
           /\ ~(key.some /\ key.v # "") => ~HasHeader(c, "Authorization")

\* An async client constructed while the adapter holds no API key.
C10_Witness ==
    /\ call.op = "acompress_documents"
    /\ call.created = 1
    /\ ~self.openai_api_key.some
    /\ clients[Len(clients)].kind = "async"
    /\ clients[Len(clients)].headers = {<<"Content-Type", "application/json">>}

(***************************************************************************)
(* LocalAIEmbeddings (localai_embeddings.py).  The adapter holds a sync    *)
(* and an async embeddings client, built at construction; every entry      *)
(* point hands its texts to client.create and returns the embedding of     *)
(* each entry of the response's data.  An embedding is a sequence of       *)
(* integers.                                                               *)
(***************************************************************************)
MaxTexts == 3       \* longest list of texts a caller embeds

EmbeddingsModel == "text-embedding-ada-002"
DefaultChunkSize == 1000

\* The adapter LocalAIEmbeddings(openai_api_key=..., chunk_size=c).
EmbeddingsAdapter(c) ==
    [exists |-> TRUE, model |-> EmbeddingsModel, chunk_size |-> c]

\* _invocation_params: {"model": self.model, **self.model_kwargs}, no kwargs.
invocation_params(s) == [model |-> s.model]

\* What _embedding_func is given: a str, or a list of str.
StrArg(t) == [kind |-> "str", s |-> t, items |-> <<>>]
ListArg(ts) == [kind |-> "list", s |-> "", items |-> ts]

\* The remote model: the vector the server computes for a text.
Texts == {"a", "b", "c"}
ServerEmbedding(t) ==
    CASE t = "a" -> <<1, 0>>
      [] t = "b" -> <<0, 1>>
      [] OTHER -> <<1, 1>>

\* The data of the endpoint's response to `input`: one entry per input text
\* in input order ("ok", what the endpoint's interface promises), or the
\* same without its last entry ("short").
ServerData(input, answer) ==
    LET full == [i \in 1..Len(input) |-> [embedding |-> ServerEmbedding(input[i])]]
    IN IF answer = "short" /\ Len(input) > 0 THEN SubSeq(full, 1, Len(input) - 1)
       ELSE full

EmbeddingAnswers == {"ok", "short", "error"}

\* client.create(input=..., **params).data, then [d.embedding for d in ...];
\* "error" is client.create raising.
CreateAndCollect(client, input, params, answer) ==
    LET request == [client |-> client, input |-> input, params |-> params]
        data == ServerData(input, answer)
    IN IF answer = "error"
       THEN [raised |-> TRUE, error |-> "APIError", result |-> <<>>, vector |-> <<>>,
             requests |-> <<request>>]
       ELSE [raised |-> FALSE, error |-> "",
             result |-> [i \in 1..Len(data) |-> data[i].embedding], vector |-> <<>>,
             requests |-> <<request>>]

\* input=[text] if isinstance(text, str) else text
CreateInput(text) == IF text.kind = "str" THEN <<text.s>> ELSE text.items

\* One client.create per text, the embeddings concatenated.
RECURSIVE CollectPerText(_, _, _, _, _)
CollectPerText(client, input, params, answer, acc) ==
    IF input = <<>> THEN acc
    ELSE LET one == CreateAndCollect(client, <<Head(input)>>, params, answer)
         IN CollectPerText(client, Tail(input), params, answer,
                [acc EXCEPT !.raised = @ \/ one.raised,
                            !.error = IF one.raised THEN one.error ELSE @,
                            !.result = @ \o one.result,
                            !.requests = @ \o one.requests])
embedding_func_per_text(s, text, answer) ==
    CollectPerText("sync", CreateInput(text), invocation_params(s), answer,
        [raised |-> FALSE, error |-> "", result |-> <<>>, vector |-> <<>>,
         requests |-> <<>>])

\* _embedding_func
embedding_func(s, text, answer) ==
    CreateAndCollect("sync", CreateInput(text), invocation_params(s), answer)

\* _aembedding_func
aembedding_func(s, text, answer) ==
    CreateAndCollect("async", CreateInput(text), invocation_params(s), answer)

\* embed_documents(texts, chunk_size): chunk_size is not read.
embed_documents(s, texts, chunk_size, answer) == embedding_func(s, ListArg(texts), answer)

\* aembed_documents(texts, chunk_size)
aembed_documents(s, texts, chunk_size, answer) == aembedding_func(s, ListArg(texts), answer)

\* ...[0] of a list of embeddings: an IndexError on an empty list.
FirstEmbedding(r) ==
    IF r.raised THEN r
    ELSE IF r.result = <<>> THEN [r EXCEPT !.raised = TRUE, !.error = "IndexError"]
    ELSE [r EXCEPT !.vector = r.result[1]]

\* embed_query(text)
embed_query(s, text, answer) == FirstEmbedding(embedding_func(s, ListArg(<<text>>), answer))

\* aembed_query(text)
aembed_query(s, text, answer) == FirstEmbedding(aembedding_func(s, ListArg(<<text>>), answer))

EmbedRecord(op, texts, chunk_size, answer, r) ==
    [op |-> op, texts |-> texts, chunk_size |-> chunk_size, answer |-> answer,
     raised |-> r.raised, error |-> r.error, result |-> r.result, vector |-> r.vector,
     requests |-> r.requests]

EmbedDocuments(texts, chunk_size, answer) ==
    /\ self.exists
    /\ call = Idle
    /\ call' = EmbedRecord("embed_documents", texts, chunk_size, answer,
                           embed_documents(self, texts, chunk_size, answer))
    /\ UNCHANGED <<self, sync_client, async_client, clients, heap, tasks>>

AEmbedDocuments(texts, chunk_size, answer) ==
    /\ self.exists
    /\ call = Idle
    /\ call' = EmbedRecord("aembed_documents", texts, chunk_size, answer,
                           aembed_documents(self, texts, chunk_size, answer))
    /\ UNCHANGED <<self, sync_client, async_client, clients, heap, tasks>>

EmbedQuery(text, answer) ==
    /\ self.exists
    /\ call = Idle
    /\ call' = EmbedRecord("embed_query", <<text>>, NoneInt, answer,
                           embed_query(self, text, answer))
    /\ UNCHANGED <<self, sync_client, async_client, clients, heap, tasks>>

AEmbedQuery(text, answer) ==
    /\ self.exists
    /\ call = Idle
    /\ call' = EmbedRecord("aembed_query", <<text>>, NoneInt, answer,
                           aembed_query(self, text, answer))
    /\ UNCHANGED <<self, sync_client, async_client, clients, heap, tasks>>

(***************************************************************************)
(* SpecEmbed: an embeddings adapter with chunk_size 1 or the default, any  *)
(* list of texts, any per-call chunk_size, any answer.                     *)
(***************************************************************************)
TextLists == SeqsUpTo(Texts, MaxTexts)
ChunkSizeArgs == {NoneInt, SomeInt(0), SomeInt(1)}

InitEmbed ==
    /\ self \in {EmbeddingsAdapter(1), EmbeddingsAdapter(DefaultChunkSize)}
    /\ sync_client = 0
    /\ async_client = 0
    /\ clients = <<>>
    /\ heap = <<>>
    /\ call = Idle
    /\ tasks = NoTasks

NextEmbed ==
    \/ Ready /\ \E ts \in TextLists, c \in ChunkSizeArgs, a \in EmbeddingAnswers :
                   EmbedDocuments(ts, c, a)
    \/ Ready /\ \E ts \in TextLists, c \in ChunkSizeArgs, a \in EmbeddingAnswers :
                   AEmbedDocuments(ts, c, a)
    \/ Ready /\ \E t \in Texts, a \in EmbeddingAnswers : EmbedQuery(t, a)
    \/ Ready /\ \E t \in Texts, a \in EmbeddingAnswers : AEmbedQuery(t, a)
    \/ Discard

SpecEmbed == InitEmbed /\ [][NextEmbed]_vars

(***************************************************************************)
(* C11. Every embedding entry point issues exactly one remote call, with   *)
(* the whole list of texts, whatever chunk_size is.  When the endpoint     *)
(* answers as its interface promises (one entry per input text, in input   *)
(* order), embed_documents(texts) returns len(texts) vectors, the i-th     *)
(* being that of texts[i], and embed_query(t) returns what                 *)
(* embed_documents([t])[0] does.  The async variants return what the sync  *)
(* ones return, for every answer.                                          *)
(***************************************************************************)
IsEmbedDocs(op) == op \in {"embed_documents", "aembed_documents"}
IsEmbedQuery(op) == op \in {"embed_query", "aembed_query"}

WellFormed(e) == e.has_index /\ e.has_score
SelectsDocument(e, n) == e.index >= -n /\ e.index < n

\* Why the answer to a call on `n` documents is a failure, "" if it is none.
FailureOf(resp, n) ==
    IF resp.transport # "ok" THEN "transport"
    ELSE IF resp.status < 200 \/ resp.status >= 300 THEN "status"
    ELSE IF ~resp.json.has_results THEN "no results"
    ELSE IF \E i \in 1..Len(resp.json.results) : ~WellFormed(resp.json.results[i])
    THEN "entry lacks a key"
    ELSE IF \E i \in 1..Len(resp.json.results) : ~SelectsDocument(resp.json.results[i], n)
    THEN "index selects nothing"
    ELSE ""

C12_AllOrNothing ==
    IsCompressOp(call.op) =>
       LET why == FailureOf(call.resp, Len(call.documents))
       IN /\ (call.documents # <<>> /\ why # "") =>
                /\ call.raised
                /\ call.output = <<>>
                /\ call.error \in CASE why = "transport" -> {"TransportError"}
                                    [] why = "status" -> {"HTTPStatusError"}
                                    [] why = "no results" -> {"RuntimeError"}
                                    [] why = "entry lacks a key" -> {"KeyError"}
                                    [] OTHER -> {"IndexError", "AttributeError"}
                /\ (why = "index selects nothing"
                       /\ \A i \in 1..Len(call.documents) :
                              call.documents[i].kind = "Document")
                   => call.error = "IndexError"
          /\ (call.documents # <<>> /\ why = "status") =>
                /\ call.message = NoneStr
                /\ call.results = <<>>
          /\ call.raised => call.output = <<>>
          /\ (~call.raised /\ call.posts = <<>>) =>
                /\ call.documents = <<>>
                /\ call.output = <<>>
          /\ (~call.raised /\ call.documents # <<>>) =>
                /\ why = ""
                /\ Len(call.posts) = 1
                /\ Len(call.output) = Len(call.resp.json.results)

\* A first entry that selects a document and a second one that cannot be
\* used: the call raised and returned nothing of the first.
C12_Witness ==
    /\ call.op = "compress_documents"
    /\ call.lits = <<"docA", "docB">>
    /\ call.resp = Answer(200, ResultsBody(<<Entry(0, 9), Entry(2, 5)>>))
    /\ call.raised
    /\ call.error = "IndexError"
    /\ call.output = <<>>

(***************************************************************************)
(* Concurrent callers on one adapter.  The sync entry points run on        *)
(* threads, which may be switched between any two statements that touch    *)
(* the handle; the async entry points run as tasks of one event loop,      *)
(* which are switched only where they await.  A caller's record holds the  *)
(* operation it is in, the statement it is at, the client it got back from *)
(* the getter, the handle value its construction overwrote, and how the    *)
(* operation ended.                                                        *)
(***************************************************************************)
NumCallers == 2     \* concurrent callers
Callers == 1..NumCallers

TaskOps == {"compress_documents", "acompress_documents", "close", "aclose"}

Task(op, pc, nonempty) ==
    [op |-> op, pc |-> pc, nonempty |-> nonempty, client |-> 0,
     constructed |-> FALSE, over |-> 0, posted |-> FALSE,
     raised |-> FALSE, error |-> ""]
IdleTask == Task("none", "done", FALSE)

At(p, pc) == tasks[p].pc = pc
Goto(p, pc) == tasks' = [tasks EXCEPT ![p].pc = pc]
Raise(p, error) ==
    tasks' = [tasks EXCEPT ![p].pc = "done", ![p].raised = TRUE, ![p].error = error]

\* A caller enters an operation.  compress_documents / acompress_documents
\* on an empty list return at once.
Begin(p, op, nonempty) ==
    /\ At(p, "done")
    /\ tasks' = [tasks EXCEPT ![p] =
                    CASE op = "compress_documents" ->
                            Task(op, IF nonempty THEN "sync_check" ELSE "done", nonempty)
                      [] op = "acompress_documents" ->
                            Task(op, IF nonempty THEN "async_get" ELSE "done", nonempty)
                      [] op = "close" -> Task(op, "close_check", FALSE)
                      [] OTHER -> Task(op, "aclose_start", FALSE)]
    /\ UNCHANGED <<self, sync_client, async_client, clients, heap, call>>

\* _get_sync_client: if self._sync_client is None
SyncCheck(p) ==
    /\ At(p, "sync_check")
    /\ Goto(p, IF sync_client = 0 THEN "sync_construct" ELSE "sync_return")
    /\ UNCHANGED <<self, sync_client, async_client, clients, heap, call>>

\* _get_sync_client: self._sync_client = httpx.Client(headers=headers)
SyncConstruct(p) ==
    /\ At(p, "sync_construct")
    /\ Len(clients) < MaxClients
    /\ clients' = Append(clients, NewClient("sync", ClientHeaders(self)))
    /\ sync_client' = Len(clients) + 1
    /\ tasks' = [tasks EXCEPT ![p].pc = "sync_return", ![p].constructed = TRUE,
                              ![p].over = sync_client]
    /\ UNCHANGED <<self, async_client, heap, call>>

\* _get_sync_client: return self._sync_client
SyncReturn(p) ==
    /\ At(p, "sync_return")
    /\ tasks' = [tasks EXCEPT ![p].pc = "sync_post", ![p].client = sync_client]
    /\ UNCHANGED <<self, sync_client, async_client, clients, heap, call>>

\* client.post(...) on what the getter returned: None has no post, a closed
\* client refuses to send.
PostOn(p, pc) ==
    LET c == tasks[p].client
    IN IF c = 0 THEN Raise(p, "AttributeError")
       ELSE IF clients[c].closes > 0 THEN Raise(p, "RuntimeError")
       ELSE tasks' = [tasks EXCEPT ![p].pc = pc, ![p].posted = TRUE]

\* _rerank_sync: response = client.post(url, json=data), and the rest.
SyncPost(p) ==
    /\ At(p, "sync_post")
    /\ PostOn(p, "done")
    /\ UNCHANGED <<self, sync_client, async_client, clients, heap, call>>

\* close: if self._sync_client is not None
CloseCheck(p) ==
    /\ At(p, "close_check")
    /\ Goto(p, IF sync_client # 0 THEN "close_close" ELSE "done")
    /\ UNCHANGED <<self, sync_client, async_client, clients, heap, call>>

\* close: self._sync_client.close()
CloseClose(p) ==
    /\ At(p, "close_close")
    /\ IF sync_client = 0
       THEN /\ Raise(p, "AttributeError")
            /\ UNCHANGED clients
       ELSE /\ clients' = CloseClient(clients, sync_client)
            /\ Goto(p, "close_reset")
    /\ UNCHANGED <<self, sync_client, async_client, heap, call>>

\* close: self._sync_client = None
CloseReset(p) ==
    /\ At(p, "close_reset")
    /\ sync_client' = 0
    /\ Goto(p, "done")
    /\ UNCHANGED <<self, async_client, clients, heap, call>>

\* _rerank_async up to its await: client = self._get_async_client(), then
\* client.post(...) checks the client and sends the request.
AsyncGetAndPost(p) ==
    /\ At(p, "async_get")
    /\ \E got \in {get_async_client(self, async_client, clients)} :
          /\ Len(got.clients) <= MaxClients
          /\ async_client' = got.handle
          /\ clients' = got.clients
          /\ IF got.clients[got.handle].closes > 0
             THEN tasks' = [tasks EXCEPT ![p].pc = "done", ![p].client = got.handle,
                                         ![p].raised = TRUE, ![p].error = "RuntimeError"]
             ELSE tasks' = [tasks EXCEPT ![p].pc = "async_await", ![p].client = got.handle,
                                         ![p].constructed = (async_client = 0),
                                         ![p].over = async_client,
                                         ![p].posted = TRUE]
    /\ UNCHANGED <<self, sync_client, heap, call>>

\* _rerank_async: the awaited post completes.
AsyncResume(p) ==
    /\ At(p, "async_await")
    /\ Goto(p, "done")
    /\ UNCHANGED <<self, sync_client, async_client, clients, heap, call>>

\* aclose up to its await: if self._async_client is not None, the client is
\* marked closed and the task waits for its transport to close.
ACloseStart(p) ==
    /\ At(p, "aclose_start")
    /\ IF async_client = 0
       THEN /\ Goto(p, "done")
            /\ UNCHANGED clients
       ELSE /\ clients' = CloseClient(clients, async_client)
            /\ Goto(p, "aclose_await")
    /\ UNCHANGED <<self, sync_client, async_client, heap, call>>

\* aclose after its await: self._async_client = None
ACloseResume(p) ==
    /\ At(p, "aclose_await")
    /\ async_client' = 0
    /\ Goto(p, "done")
    /\ UNCHANGED <<self, sync_client, clients, heap, call>>

(***************************************************************************)
(* SpecConc: the adapter LocalAIRerank(openai_api_key="secret") shared by  *)
(* the callers, each running one operation after another.                  *)
(***************************************************************************)
InitConc ==
    /\ self = [exists |-> TRUE, model |-> DefaultModel, top_n |-> SomeInt(DefaultTopN),
               openai_api_key |-> SomeStr("secret")]
    /\ sync_client = 0
    /\ async_client = 0
    /\ clients = <<>>
    /\ heap = <<>>
    /\ call = Idle
    /\ tasks = [p \in Callers |-> IdleTask]

NextConc ==
    \/ \E p \in Callers, op \in TaskOps, nonempty \in BOOLEAN : Begin(p, op, nonempty)
    \/ \E p \in Callers : SyncCheck(p)
    \/ \E p \in Callers : SyncConstruct(p)
    \/ \E p \in Callers : SyncReturn(p)
    \/ \E p \in Callers : SyncPost(p)
    \/ \E p \in Callers : CloseCheck(p)
    \/ \E p \in Callers : CloseClose(p)
    \/ \E p \in Callers : CloseReset(p)
    \/ \E p \in Callers : AsyncGetAndPost(p)
    \/ \E p \in Callers : AsyncResume(p)
    \/ \E p \in Callers : ACloseStart(p)
    \/ \E p \in Callers : ACloseResume(p)

SpecConc == InitConc /\ [][NextConc]_vars

(***************************************************************************)
(* C13 (as stated). Whatever the interleaving of compress_documents,       *)
(* acompress_documents, close and aclose by concurrent callers: every      *)
(* client constructed is the one held in its handle or has been closed; a  *)
(* caller constructs a client only over an empty handle; and a rerank call *)
(* on a non-empty list posts on an open client, one it constructed or one  *)
(* it found in the handle, and does not raise for want of one.             *)
(* Fails when two threads both find the sync handle empty: each constructs *)
(* a client, the second assignment drops the first client, still open.     *)
(***************************************************************************)
Held(i) ==
    \/ clients[i].kind = "sync" /\ sync_client = i
    \/ clients[i].kind = "async" /\ async_client = i

NoClientLeaked == \A i \in 1..Len(clients) : Held(i) \/ clients[i].closes > 0

C13_ClientsHeldOrClosed ==
    /\ NoClientLeaked
    /\ \A p \in DOMAIN tasks :
          /\ tasks[p].constructed => tasks[p].over = 0
          /\ (tasks[p].op \in {"compress_documents", "acompress_documents"}
                /\ tasks[p].nonempty /\ tasks[p].pc = "done")
             => (~tasks[p].raised /\ tasks[p].posted)

====
